---- MODULE Spec2Model ----
(***************************************************************************)
(* A model of the fully associative LRU cache of cache.c.                  *)
(*                                                                         *)
(* unsigned long (64 bit) values are kept as four 16-bit limbs, least      *)
(* significant limb first, unsigned int (32 bit) values as two limbs, so   *)
(* that the truncation of a tag into the line's 32-bit tag field and the   *)
(* wrap-around of address arithmetic are computed, not assumed away.       *)
(***************************************************************************)
EXTENDS Integers, Sequences, FiniteSets, TLC

(* ------------------------------ bounds -------------------------------- *)
\* the largest number of cache lines an arena is given
MaxLines == 2
\* the largest number of failing backing reads in one run
MaxFail == 1
\* the longest request sequence that is replayed on the second instance
MaxOps == 3

(* ------------------------------- state -------------------------------- *)
VARIABLES
    F_size,      \* c_info.F_size, the size of the arena
    F_memory,    \* the arena: the initialized flag and the line array
    last,        \* the latest cache_get call: its arguments and what it did
    order,       \* line indices, most recently accessed first
    fill,        \* per line: the block of the latest fill, and whether it succeeded
    failures,    \* the number of backing reads that have failed
    F_memoryB,   \* the arena of a second, independent instance
    hist,        \* the requests made on the first instance, with its results
    histB        \* the results of replaying hist on the second instance

(* ------------------------- program constants -------------------------- *)
sizeOfBlock == 64
wordSize == 8
sizeofCacheBase == 16
sizeofCacheSet == 8
sizeofCacheLine == 76

(* --------------------- fixed-width unsigned values -------------------- *)
Limb == 256 * 256

RECURSIVE Pow2(_)
Pow2(n) == IF n = 0 THEN 1 ELSE 2 * Pow2(n - 1)

RECURSIVE Log2(_)
Log2(n) == IF n <= 1 THEN 0 ELSE 1 + Log2(n \div 2)

ULZero == <<0, 0, 0, 0>>

\* u + k modulo 2^64, for a small non-negative k
ULAdd(u, k) ==
    LET s1 == u[1] + k
        s2 == u[2] + (s1 \div Limb)
        s3 == u[3] + (s2 \div Limb)
        s4 == u[4] + (s3 \div Limb)
    IN  <<s1 % Limb, s2 % Limb, s3 % Limb, s4 % Limb>>

\* u - k modulo 2^64, for a small non-negative k
ULSub(u, k) ==
    LET s1 == u[1] - k
        s2 == u[2] + (s1 \div Limb)
        s3 == u[3] + (s2 \div Limb)
        s4 == u[4] + (s3 \div Limb)
    IN  <<s1 % Limb, s2 % Limb, s3 % Limb, s4 % Limb>>

\* u >> n for 0 <= n < 16
ULShr(u, n) ==
    LET p == Pow2(n)
        q == Limb \div p
    IN  <<(u[1] \div p) + (u[2] % p) * q,
          (u[2] \div p) + (u[3] % p) * q,
          (u[3] \div p) + (u[4] % p) * q,
          u[4] \div p>>

\* (u << 8) | b modulo 2^64, for a byte b
ULShl8Or(u, b) ==
    <<((u[1] % 256) * 256) + b,
      ((u[2] % 256) * 256) + (u[1] \div 256),
      ((u[3] % 256) * 256) + (u[2] \div 256),
      ((u[4] % 256) * 256) + (u[3] \div 256)>>

\* the conversion of an unsigned long to unsigned int (assignment to line->tag)
ToUInt(u) == <<u[1], u[2]>>

\* the conversion of an unsigned int to unsigned long (line->tag == tag)
ToULong(t) == <<t[1], t[2], 0, 0>>

\* the function f over 1 .. n as a sequence
AsSeq(f, n) == SubSeq(f, 1, n)

(* --------------------------- backing memory --------------------------- *)
\* the byte the backing memory holds at an address
MemByte(a) ==
    (a[1] * 3 + a[2] * 5 + a[3] * 7 + a[4] * 11 + 1) % 256

\* what a failing reader may leave in the buffer
GarbageByte == 170

ReaderOutcome == {"ok", "keep", "garbage"}

\* the size bytes of backing memory from address on
MemBytes(address, size) ==
    AsSeq([k \in 1 .. size |-> MemByte(ULAdd(address, k - 1))], size)

\* the blocks of backing memory that the requests below can touch, tabulated
\* once
Block_0    == <<0, 0, 0, 0>>
Block_1    == <<64, 0, 0, 0>>
Block_2p32 == <<0, 0, 64, 0>>
Block_2p32_1 == <<64, 0, 64, 0>>
BlockTable ==
    [b \in {Block_0, Block_1, Block_2p32, Block_2p32_1} |->
        MemBytes(b, 64)]

\* memget(address, buffer, size): the outcome r is the reader's; on failure
\* the buffer is either left as it was or overwritten with garbage
memget(address, buffer, size, r) ==
    [ok  |-> (r = "ok"),
     buf |-> IF r = "ok"
             THEN IF address \in DOMAIN BlockTable /\ size = 64
                  THEN BlockTable[address]
                  ELSE MemBytes(address, size)
             ELSE IF r = "keep" THEN buffer
             ELSE AsSeq([k \in 1 .. size |-> GarbageByte], size)]

(* ------------------------------ the cache ----------------------------- *)
\* a cache_line of an arena of zero bytes
ZeroLine ==
    [time |-> 0, valid |-> 0, tag |-> <<0, 0>>,
     cacheBlock |-> AsSeq([k \in 1 .. sizeOfBlock |-> 0], sizeOfBlock)]

numOfLinesOf(arenaSize) ==
    (arenaSize - sizeofCacheBase - sizeofCacheSet) \div sizeofCacheLine

\* the arena as the driver hands it over: all bytes zero
ZeroArena(arenaSize) ==
    [initialized |-> 0,
     cacheLineArray |-> AsSeq([j \in 1 .. numOfLinesOf(arenaSize) |-> ZeroLine],
                              numOfLinesOf(arenaSize))]

address_decomposer(address) ==
    LET offsetBit == Log2(sizeOfBlock)
    IN  [offset |-> address[1] % Pow2(offsetBit),
         tag    |-> ULShr(address, offsetBit)]

\* block is the byte sequence starting where the pointer argument points
cache_get_byElem(valueTemp, block, numOfElem, startLocation) ==
    AsSeq([k \in 1 .. wordSize |->
              IF k - 1 >= startLocation /\ k - 1 < startLocation + numOfElem
              THEN block[k - startLocation]
              ELSE valueTemp[k]], wordSize)

RECURSIVE reverse_endian_loop(_, _, _)
reverse_endian_loop(valueTemp, i, value) ==
    IF i >= 8 THEN value
    ELSE reverse_endian_loop(valueTemp, i + 1,
                             ULShl8Or(value, valueTemp[(8 - i - 1) + 1]))

reverse_endian(valueTemp) == reverse_endian_loop(valueTemp, 0, ULZero)

\* the line findEvict's first loop leaves in evictedLine: the last line whose
\* time is numOfLines - 1; with no such line the pointer is uninitialised and
\* junk stands for whatever line it happens to point to
\* a findEvict that looks for the line with time 0
evictedLineOf_mru(set, numOfLines, junk) ==
    LET c == {i \in 1 .. numOfLines : set[i].time = 0}
    IN  IF c = {} THEN junk ELSE CHOOSE i \in c : \A j \in c : j <= i

evictedLineOf(set, numOfLines, junk) ==
    LET c == {i \in 1 .. numOfLines : set[i].time = numOfLines - 1}
    IN  IF c = {} THEN junk ELSE CHOOSE i \in c : \A j \in c : j <= i

\* a findEvict that sets the valid bit inside its second loop, on every line
findEvict_validAll(set, tag, numOfLines, junk) ==
    LET e == evictedLineOf(set, numOfLines, junk)
    IN  [line |-> e,
         set  |-> AsSeq([i \in 1 .. numOfLines |->
                     IF i = e
                     THEN [set[i] EXCEPT !.tag = ToUInt(tag), !.valid = 1,
                                         !.time = 0]
                     ELSE IF set[i].time < set[e].time
                          THEN [set[i] EXCEPT !.time = set[i].time + 1,
                                              !.valid = 1]
                          ELSE [set[i] EXCEPT !.valid = 1]], numOfLines)]

\* a findEvict without its second loop
findEvict_noShift(set, tag, numOfLines, junk) ==
    LET e == evictedLineOf(set, numOfLines, junk)
    IN  [line |-> e,
         set  |-> [set EXCEPT ![e].tag = ToUInt(tag), ![e].valid = 1,
                              ![e].time = 0]]

findEvict(set, tag, numOfLines, junk) ==
    LET e == evictedLineOf(set, numOfLines, junk)
    IN  [line |-> e,
         set  |-> AsSeq([i \in 1 .. numOfLines |->
                     IF i = e
                     THEN [set[i] EXCEPT !.tag = ToUInt(tag), !.valid = 1,
                                         !.time = 0]
                     ELSE IF set[i].time < set[e].time
                          THEN [set[i] EXCEPT !.time = set[i].time + 1]
                          ELSE set[i]], numOfLines)]

\* a setLRU that ages every other line
setLRU_all(set, line, numOfLines) ==
    AsSeq([i \in 1 .. numOfLines |->
              IF i = line THEN [set[i] EXCEPT !.time = 0]
              ELSE [set[i] EXCEPT !.time = set[i].time + 1]], numOfLines)

setLRU(set, line, numOfLines) ==
    AsSeq([i \in 1 .. numOfLines |->
              IF i = line THEN [set[i] EXCEPT !.time = 0]
              ELSE IF set[i].time < set[line].time
                   THEN [set[i] EXCEPT !.time = set[i].time + 1]
                   ELSE set[i]], numOfLines)

\* an init that hands out the times from the last line to the first
init_reversed(cacheBase, arenaSize) ==
    [initialized |-> 1,
     cacheLineArray |->
        AsSeq([j \in 1 .. numOfLinesOf(arenaSize) |->
                 [cacheBase.cacheLineArray[j] EXCEPT
                     !.time = numOfLinesOf(arenaSize) - j,
                     !.valid = 0, !.tag = <<0, 0>>]],
              numOfLinesOf(arenaSize))]

\* an init that leaves the initialized flag as it was
init_noFlag(cacheBase, arenaSize) ==
    [initialized |-> cacheBase.initialized,
     cacheLineArray |->
        AsSeq([j \in 1 .. numOfLinesOf(arenaSize) |->
                 [cacheBase.cacheLineArray[j] EXCEPT
                     !.time = j - 1, !.valid = 0, !.tag = <<0, 0>>]],
              numOfLinesOf(arenaSize))]

init(cacheBase, arenaSize) ==
    [initialized |-> 1,
     cacheLineArray |->
        AsSeq([j \in 1 .. numOfLinesOf(arenaSize) |->
                 [cacheBase.cacheLineArray[j] EXCEPT
                     !.time = j - 1, !.valid = 0, !.tag = <<0, 0>>]],
              numOfLinesOf(arenaSize))]

\* a flag kept once per process instead of once per arena
isInitialized_static(cacheBase) == F_memory.initialized # 0

isInitialized(cacheBase) == cacheBase.initialized # 0

\* the scan for a hit: the first valid line whose tag equals tag, 0 if none
hitLine(set, tag, numOfLines) ==
    LET c == {i \in 1 .. numOfLines :
                 set[i].valid # 0 /\ ToULong(set[i].tag) = tag}
    IN  IF c = {} THEN 0 ELSE CHOOSE i \in c : \A j \in c : i <= j

\* the bytes from pointer block + offset to the end of the block
From(block, offset) == SubSeq(block, offset + 1, Len(block))

Zero8 == AsSeq([k \in 1 .. wordSize |-> 0], wordSize)

\* the events a call leaves behind, for the properties
HitEv(half, i, t) ==
    [kind |-> "hit", half |-> half, line |-> i, tag |-> t,
     oldValid |-> 1, oldTag |-> <<0, 0>>, oldTime |-> 0, ub |-> FALSE]
EvictEv(half, i, t, s) ==
    [kind |-> "evict", half |-> half, line |-> i, tag |-> t,
     oldValid |-> s[i].valid, oldTag |-> s[i].tag, oldTime |-> s[i].time,
     ub |-> \A j \in DOMAIN s : s[j].time # Len(s) - 1]
ReadEv(half, i, a, size, how, s) ==
    [half |-> half, line |-> i, address |-> a, size |-> size,
     ok |-> (how = "ok"), how |-> how,
     lineTag |-> s[i].tag, lineValid |-> s[i].valid]

\* what cache_get's two paths hand back: the line array, the return code,
\* whether *value was written and with what, and the events
Ret(set, rc, wrote, value, acc, reads) ==
    [set |-> set, rc |-> rc, wrote |-> wrote, value |-> value,
     acc |-> acc, reads |-> reads]

\* 235-243: the hit on line h
cache_get_single_hit(set, numOfLines, offset, tag, h) ==
    Ret(setLRU(set, h, numOfLines), 1, TRUE,
        reverse_endian(cache_get_byElem(Zero8,
                          From(set[h].cacheBlock, offset), 8, 0)),
        <<HitEv(1, h, tag)>>, <<>>)

\* 256-266: the read into the evicted line has come back as m
cache_get_single_read(set, address, offset, tag, r1, e, m) ==
    Ret([e.set EXCEPT ![e.line].cacheBlock = m.buf],
        IF m.ok THEN 1 ELSE 0, m.ok,
        IF m.ok
        THEN reverse_endian(cache_get_byElem(Zero8, From(m.buf, offset), 8, 0))
        ELSE ULZero,
        <<EvictEv(1, e.line, tag, set)>>,
        <<ReadEv(1, e.line, ULSub(address, offset), 64, r1, e.set)>>)

\* 250-256: the miss, e being what findEvict did
cache_get_single_miss(set, address, offset, tag, r1, e) ==
    cache_get_single_read(set, address, offset, tag, r1, e,
        memget(ULSub(address, offset), e.set[e.line].cacheBlock,
               sizeOfBlock, r1))

\* a one-block path whose scan never reports a hit
cache_get_single_scan_noHit(set, numOfLines, address, offset, tag, r1, junk, h) ==
    cache_get_single_miss(set, address, offset, tag, r1,
                          findEvict(set, tag, numOfLines, junk))

\* 231-250: h is the line the scan stops at, 0 if it finds none
cache_get_single_scan(set, numOfLines, address, offset, tag, r1, junk, h) ==
    IF h # 0
    THEN cache_get_single_hit(set, numOfLines, offset, tag, h)
    ELSE cache_get_single_miss(set, address, offset, tag, r1,
                               findEvict(set, tag, numOfLines, junk))

\* the word lies inside one block (cache.c 226-266)
cache_get_single(set, numOfLines, address, offset, tag, r1, junk) ==
    cache_get_single_scan(set, numOfLines, address, offset, tag, r1, junk,
                          hitLine(set, tag, numOfLines))

\* the crossing path's locals: the line array, valueTemp, isHitLine1 and
\* isHitLine2 (as the lines hit, 0 for none), whether control has left through
\* a return 0 after a failed read, and the events so far
CrossStart(set) ==
    [set |-> set, valueTemp |-> Zero8, isHitLine |-> <<0, 0>>,
     returned |-> FALSE, acc |-> <<>>, reads |-> <<>>]

\* a crossing hit that copies the bytes but forgets setLRU
cache_get_cross_hit_noTouch(st, half, numOfLines, tag, offset, numOfElem, startLocation, h) ==
    IF h = 0 THEN st
    ELSE [st EXCEPT
             !.valueTemp = cache_get_byElem(st.valueTemp,
                               From(st.set[h].cacheBlock, offset),
                               numOfElem, startLocation),
             !.isHitLine[half] = h,
             !.acc = Append(st.acc, HitEv(half, h, tag))]

\* 288-302, 308-322: the scan for block half has stopped at line h (0: none);
\* numOfElem bytes of the line, from offset on, go to valueTemp
cache_get_cross_hit(st, half, numOfLines, tag, offset, numOfElem, startLocation, h) ==
    IF h = 0 THEN st
    ELSE [st EXCEPT
             !.set = setLRU(st.set, h, numOfLines),
             !.valueTemp = cache_get_byElem(st.valueTemp,
                               From(st.set[h].cacheBlock, offset),
                               numOfElem, startLocation),
             !.isHitLine[half] = h,
             !.acc = Append(st.acc, HitEv(half, h, tag))]

\* 286-303, 306-323
cache_get_cross_scan(st, half, numOfLines, tag, offset, numOfElem, startLocation) ==
    cache_get_cross_hit(st, half, numOfLines, tag, offset, numOfElem,
                        startLocation, hitLine(st.set, tag, numOfLines))

\* 338-343, 359-364: the read into the evicted line has come back as m
cache_get_cross_read(st, half, blockAddress, tag, offset, numOfElem, startLocation, r, e, m) ==
    [st EXCEPT
        !.set = [e.set EXCEPT ![e.line].cacheBlock = m.buf],
        !.valueTemp = IF m.ok
                      THEN cache_get_byElem(st.valueTemp, From(m.buf, offset),
                                            numOfElem, startLocation)
                      ELSE st.valueTemp,
        !.returned = ~m.ok,
        !.acc = Append(st.acc, EvictEv(half, e.line, tag, st.set)),
        !.reads = Append(st.reads,
                         ReadEv(half, e.line, blockAddress, sizeOfBlock, r,
                                e.set))]

\* 332-338, 353-359: e is what findEvict did
cache_get_cross_fill(st, half, blockAddress, tag, offset, numOfElem, startLocation, r, e) ==
    cache_get_cross_read(st, half, blockAddress, tag, offset, numOfElem,
                         startLocation, r, e,
        memget(blockAddress, e.set[e.line].cacheBlock, sizeOfBlock, r))

\* a crossing path that handles the second miss only if the first block hit
cache_get_cross_miss_elseIf(st, half, numOfLines, blockAddress, tag, offset, numOfElem, startLocation, r, junk) ==
    IF st.returned \/ st.isHitLine[half] # 0 \/ st.reads # <<>> THEN st
    ELSE cache_get_cross_fill(st, half, blockAddress, tag, offset, numOfElem,
                              startLocation, r,
                              findEvict(st.set, tag, numOfLines, junk))

\* 329-344, 350-365
cache_get_cross_miss(st, half, numOfLines, blockAddress, tag, offset, numOfElem, startLocation, r, junk) ==
    IF st.returned \/ st.isHitLine[half] # 0 THEN st
    ELSE cache_get_cross_fill(st, half, blockAddress, tag, offset, numOfElem,
                              startLocation, r,
                              findEvict(st.set, tag, numOfLines, junk))

\* 342, 363: return 0 after a failed read; otherwise *value is written at 368
\* and control reaches the return 0 at 371
cache_get_cross_return(st) ==
    Ret(st.set, 0, ~st.returned,
        IF st.returned THEN ULZero ELSE reverse_endian(st.valueTemp),
        st.acc, st.reads)

\* 286-371, nd being the decomposition of newAddress
cache_get_cross_blocks(set, numOfLines, address, offset, tag, r1, r2, junk, newAddress, nd) ==
    cache_get_cross_return(
      cache_get_cross_miss(
        cache_get_cross_miss(
          cache_get_cross_scan(
            cache_get_cross_scan(CrossStart(set), 1, numOfLines, tag,
                                 offset, sizeOfBlock - offset, 0),
            2, numOfLines, nd.tag, 0,
            8 - (sizeOfBlock - offset), sizeOfBlock - offset),
          1, numOfLines, ULSub(address, offset), tag, offset,
          sizeOfBlock - offset, 0, r1, junk),
        2, numOfLines, ULSub(newAddress, nd.offset), nd.tag, 0,
        8 - (sizeOfBlock - offset), sizeOfBlock - offset, r2, junk))

\* 278-282
cache_get_cross_next(set, numOfLines, address, offset, tag, r1, r2, junk, newAddress) ==
    cache_get_cross_blocks(set, numOfLines, address, offset, tag, r1, r2,
                           junk, newAddress, address_decomposer(newAddress))

\* the word crosses into the next block (cache.c 274-371)
cache_get_cross(set, numOfLines, address, offset, tag, r1, r2, junk) ==
    cache_get_cross_next(set, numOfLines, address, offset, tag, r1, r2, junk,
                         ULAdd(address, sizeOfBlock - offset))

\* what a call leaves: the arena, the return code, *value, and the events
cache_get_result(cacheBase, ranInit, crossing, r) ==
    [F_memory |-> [cacheBase EXCEPT !.cacheLineArray = r.set],
     rc |-> r.rc, wrote |-> r.wrote, value |-> r.value,
     crossing |-> crossing, ranInit |-> ranInit,
     acc |-> r.acc, reads |-> r.reads]

\* 213-371: the arena is initialized and the address decomposed into d
cache_get_paths(cacheBase, ranInit, numOfLines, address, d, r1, r2, junk) ==
    IF d.offset + 8 <= sizeOfBlock
    THEN cache_get_result(cacheBase, ranInit, FALSE,
             cache_get_single(cacheBase.cacheLineArray, numOfLines, address,
                              d.offset, d.tag, r1, junk))
    ELSE cache_get_result(cacheBase, ranInit, TRUE,
             cache_get_cross(cacheBase.cacheLineArray, numOfLines, address,
                             d.offset, d.tag, r1, r2, junk))

\* cache_get(address, value) on the arena cacheBase0 of size arenaSize; r1 and
\* r2 are the reader's outcomes for the first and the second block
cache_get(cacheBase0, arenaSize, address, r1, r2, junk) ==
    cache_get_paths(IF isInitialized(cacheBase0) THEN cacheBase0
                    ELSE init(cacheBase0, arenaSize),
                    ~isInitialized(cacheBase0), numOfLinesOf(arenaSize),
                    address, address_decomposer(address), r1, r2, junk)

vars == <<F_size, F_memory, last, order, fill, failures,
          F_memoryB, hist, histB>>

\* the requested addresses, as limbs, least significant first
A_0    == <<0, 0, 0, 0>>                  \* block 0, offset 0
A_60   == <<60, 0, 0, 0>>                 \* block 0, offset 60: crosses into block 1
A_120  == <<120, 0, 0, 0>>                \* block 1, offset 56: the last word inside
A_2p38 == <<0, 0, 64, 0>>                 \* 2^38: block 2^32, offset 0
A_2p38_60 == <<60, 0, 64, 0>>             \* 2^38 + 60: crosses into block 2^32 + 1
Addrs == {A_0, A_60, A_120, A_2p38, A_2p38_60}
\* the addresses requested when two instances are compared
DetAddrs == {A_0, A_60, A_2p38}

NoCall ==
    [called |-> FALSE, address |-> ULZero, rc |-> 0, wrote |-> FALSE,
     value |-> ULZero, crossing |-> FALSE, ranInit |-> FALSE,
     acc |-> <<>>, reads |-> <<>>, cold |-> FALSE, evicted |-> <<>>]

NoFill == [has |-> FALSE, tag |-> ULZero, ok |-> FALSE, failedIn |-> ""]

numLines == numOfLinesOf(F_size)
Lines == 1 .. numLines
set == F_memory.cacheLineArray

Init ==
    /\ F_size \in {sizeofCacheBase + sizeofCacheSet + n * sizeofCacheLine :
                      n \in 1 .. MaxLines}
    /\ F_memory = ZeroArena(F_size)
    /\ last = NoCall
    /\ order = <<>>
    /\ fill = AsSeq([i \in 1 .. numOfLinesOf(F_size) |-> NoFill],
                    numOfLinesOf(F_size))
    /\ failures = 0
    /\ F_memoryB = ZeroArena(F_size)
    /\ hist = <<>>
    /\ histB = <<>>

(* ------------------------------ bookkeeping --------------------------- *)
Remove(s, x) == SelectSeq(s, LAMBDA y : y # x)
MoveToFront(s, x) == <<x>> \o Remove(s, x)

RECURSIVE OrderAfter(_, _)
OrderAfter(o, acc) ==
    IF acc = <<>> THEN o
    ELSE OrderAfter(MoveToFront(o, Head(acc).line), Tail(acc))

\* fill after the reads of a call; a failed fill is marked with the kind of
\* call that left it
RECURSIVE FillAfter(_, _, _)
FillAfter(f, reads, crossing) ==
    IF reads = <<>> THEN f
    ELSE FillAfter([f EXCEPT ![Head(reads).line] =
                       [has |-> TRUE,
                        tag |-> address_decomposer(Head(reads).address).tag,
                        ok  |-> Head(reads).ok,
                        failedIn |-> IF Head(reads).ok THEN ""
                                     ELSE IF crossing THEN "crossing"
                                     ELSE "single"]],
                   Tail(reads), crossing)

HasRead(res, half) == \E k \in DOMAIN res.reads : res.reads[k].half = half
HasUB(res) == \E k \in DOMAIN res.acc : res.acc[k].ub
NumFailed(res) == Cardinality({k \in DOMAIN res.reads : ~res.reads[k].ok})

\* the reader outcomes and stray pointers worth trying for a call: those of
\* the reads and the evictions the call makes when every read succeeds (a
\* failing read only cuts the call short)
Outcomes(dry, half, budget) ==
    IF HasRead(dry, half) /\ budget > 0 THEN ReaderOutcome ELSE {"ok"}
Strays(dry, n) == IF HasUB(dry) THEN 1 .. n ELSE {1}

\* an outcome the call never consumed is fixed, so that one call is one step
Used(res, r1, r2) ==
    /\ ~HasRead(res, 1) => r1 = "ok"
    /\ ~HasRead(res, 2) => r2 = "ok"

\* what the lines evicted by a call were last filled with, before the call
Evicted(f, acc) ==
    [k \in DOMAIN SelectSeq(acc, LAMBDA ev : ev.kind = "evict") |->
        f[SelectSeq(acc, LAMBDA ev : ev.kind = "evict")[k].line]]

CallRecord(cacheBase, f, address, res) ==
    [called |-> TRUE, address |-> address, rc |-> res.rc, wrote |-> res.wrote,
     value |-> res.value, crossing |-> res.crossing, ranInit |-> res.ranInit,
     acc |-> res.acc, reads |-> res.reads,
     cold |-> \/ ~isInitialized(cacheBase)
              \/ \A i \in DOMAIN cacheBase.cacheLineArray :
                    cacheBase.cacheLineArray[i].valid = 0,
     evicted |-> Evicted(f, res.acc)]

\* one cache_get call on the first instance
Call(address) ==
    \E dry \in {cache_get(F_memory, F_size, address, "ok", "ok", 1)} :
    \E r1 \in Outcomes(dry, 1, MaxFail - failures),
       r2 \in Outcomes(dry, 2, MaxFail - failures),
       junk \in Strays(dry, numLines) :
    \E res \in {cache_get(F_memory, F_size, address, r1, r2, junk)} :
        /\ Used(res, r1, r2)
        /\ failures + NumFailed(res) <= MaxFail
        /\ F_memory' = res.F_memory
        /\ last' = CallRecord(F_memory, fill, address, res)
        /\ order' = OrderAfter(order, res.acc)
        /\ fill' = FillAfter(fill, res.reads, res.crossing)
        /\ failures' = failures + NumFailed(res)
        /\ UNCHANGED F_size

CacheGet ==
    \E address \in Addrs :
        /\ Call(address)
        /\ UNCHANGED <<F_memoryB, hist, histB>>

Next == CacheGet

Spec == Init /\ [][Next]_vars

(* ------------------- two instances, the same requests ------------------ *)
\* what a caller sees of a call: the return code, the value if one was
\* written, and per block whether it hit or missed
Outcome(res) ==
    [rc |-> res.rc, wrote |-> res.wrote, value |-> res.value,
     kinds |-> [k \in DOMAIN res.acc |-> <<res.acc[k].half, res.acc[k].kind>>]]

ReaderOf(reads, half) ==
    IF \E k \in DOMAIN reads : reads[k].half = half
    THEN LET k == CHOOSE k \in DOMAIN reads : reads[k].half = half
         IN  reads[k].how
    ELSE "ok"

\* a request on the first instance, recorded with the reader's outcomes
GetA ==
    /\ Len(hist) < MaxOps
    /\ \E address \in DetAddrs :
          /\ Call(address)
          /\ hist' = Append(hist,
                 [address |-> address,
                  r1 |-> ReaderOf(last'.reads, 1),
                  r2 |-> ReaderOf(last'.reads, 2),
                  out |-> Outcome(last')])
    /\ UNCHANGED <<F_memoryB, histB>>

\* the next recorded request on the second instance, its reader behaving as
\* it did for the first
ReplayB ==
    /\ Len(histB) < Len(hist)
    /\ \E h \in {hist[Len(histB) + 1]} :
       \E dry \in {cache_get(F_memoryB, F_size, h.address, h.r1, h.r2, 1)} :
       \E junk \in Strays(dry, numLines) :
       \E res \in {cache_get(F_memoryB, F_size, h.address, h.r1, h.r2, junk)} :
          /\ F_memoryB' = res.F_memory
          /\ histB' = Append(histB, Outcome(res))
    /\ UNCHANGED <<F_size, F_memory, last, order, fill, failures, hist>>

DetNext == GetA \/ ReplayB

DetSpec == Init /\ [][DetNext]_vars

(* ------------------------------ properties ---------------------------- *)
\* the 8-byte word the backing memory holds at address a, low byte first
WordAt(a) ==
    <<MemByte(a) + 256 * MemByte(ULAdd(a, 1)),
      MemByte(ULAdd(a, 2)) + 256 * MemByte(ULAdd(a, 3)),
      MemByte(ULAdd(a, 4)) + 256 * MemByte(ULAdd(a, 5)),
      MemByte(ULAdd(a, 6)) + 256 * MemByte(ULAdd(a, 7))>>

BlockOf(a) == address_decomposer(a).tag
OffsetOf(a) == address_decomposer(a).offset
AllOk(c) == \A k \in DOMAIN c.reads : c.reads[k].ok
Evictions(c) == SelectSeq(c.acc, LAMBDA ev : ev.kind = "evict")
Hits(c) == SelectSeq(c.acc, LAMBDA ev : ev.kind = "hit")
RecencyPerm(lines) ==
    {lines[i].time : i \in DOMAIN lines} = 0 .. (Len(lines) - 1)

\* C1: on a cold cache and with a reader that never fails, cache_get(A) and
\* an immediately repeated cache_get(A) both return 1 and both deliver the
\* word the backing memory holds at A, whether or not the word crosses into
\* the next block.
C1_RoundTrip ==
    [][(/\ last.called /\ last.cold
        /\ failures' = 0
        /\ last'.called /\ last'.address = last.address)
       => (/\ last.rc = 1 /\ last.wrote /\ last.value = WordAt(last.address)
           /\ last'.rc = 1 /\ last'.wrote /\ last'.value = last.value)]_vars

\* C2: once the arena is initialized, and after every cache_get whatever its
\* path (hit, miss, crossing, failed read), the time values of the lines are
\* exactly 0 .. numLines - 1.
C2_RecencyPermutation ==
    isInitialized(F_memory) => RecencyPerm(set)

\* a crossing call on two or more lines that hit one block, evicted for the
\* other and had its read fail
C2_Witness ==
    /\ last.called /\ last.crossing /\ numLines >= 2
    /\ Hits(last) # <<>> /\ Evictions(last) # <<>> /\ ~AllOk(last)
    /\ RecencyPerm(set)

\* line v is the least recently accessed of the lines, o listing the accessed
\* lines from the most to the least recent: v was never accessed, or every
\* line was and v comes last
LeastRecent(o, v) ==
    \/ \A k \in DOMAIN o : o[k] # v
    \/ Len(o) = numLines /\ o[Len(o)] = v

C4_FailureIffReadFailed ==
    last.called => ((last.rc = 0) <=> ~AllOk(last))

\* C5: a crossing request whose reads all succeed, no read having failed
\* before, delivers the word made of the last 64 - offset bytes of its block
\* and the first bytes of the next block.
C5_CrossAssembly ==
    (last.called /\ last.crossing /\ AllOk(last) /\ failures = 0)
    => (last.wrote /\ last.value = WordAt(last.address))

LineWord(line, offset) ==
    reverse_endian(SubSeq(line.cacheBlock, offset + 1, offset + 8))

\* C7: a line left by the failed fill of a one-block request for block B is
\* valid, carries tag B and time 0 right after the call; and as long as it
\* is not evicted, a one-block request for B is a hit on it: it returns 1,
\* reads nothing, and delivers the bytes the line holds.
C7_FalseHit ==
    [][/\ (last'.called /\ ~last'.crossing /\ ~AllOk(last'))
          => LET v == last'.reads[1].line
             IN  /\ set'[v].valid = 1 /\ set'[v].time = 0
                 /\ ToULong(set'[v].tag) = BlockOf(last'.address)
       /\ \A v \in Lines :
             (/\ fill[v].failedIn = "single"
              /\ last'.called /\ ~last'.crossing
              /\ BlockOf(last'.address) = fill[v].tag)
             => (/\ last'.rc = 1 /\ last'.reads = <<>>
                 /\ last'.acc = <<HitEv(1, v, fill[v].tag)>>
                 /\ last'.value = LineWord(set[v], OffsetOf(last'.address)))]_vars

\* C8: with two lines or more (with one line the second eviction takes the
\* line of the first), a crossing request that misses its block and reads
\* it, and whose read of the next block fails, returns 0 and leaves the line
\* of its block valid with that tag and the bytes read; a one-block request
\* for that block right after it is a hit.
C8_PartialFailureKept ==
    [][/\ (/\ numLines >= 2
           /\ last'.called /\ last'.crossing /\ Len(last'.reads) = 2
           /\ last'.reads[1].ok /\ ~last'.reads[2].ok)
          => LET v == last'.reads[1].line
             IN  /\ last'.rc = 0
                 /\ set'[v].valid = 1
                 /\ ToULong(set'[v].tag) = BlockOf(last'.address)
                 /\ set'[v].cacheBlock = MemBytes(last'.reads[1].address, 64)
       /\ (/\ numLines >= 2
           /\ last.called /\ last.crossing /\ Len(last.reads) = 2
           /\ last.reads[1].ok /\ ~last.reads[2].ok
           /\ last'.called /\ ~last'.crossing
           /\ BlockOf(last'.address) = BlockOf(last.address))
          => (last'.reads = <<>> /\ last'.rc = 1)]_vars

\* C9: no two valid lines carry the same tag.
C9_TagUniqueness ==
    isInitialized(F_memory) =>
        \A i, j \in Lines :
            (i # j /\ set[i].valid = 1 /\ set[j].valid = 1)
            => set[i].tag # set[j].tag

\* the tag, valid bit and time of every line
LineStates(cacheBase) ==
    [i \in DOMAIN cacheBase.cacheLineArray |->
        [tag   |-> cacheBase.cacheLineArray[i].tag,
         valid |-> cacheBase.cacheLineArray[i].valid,
         time  |-> cacheBase.cacheLineArray[i].time]]

ValidCount(lines) == Cardinality({i \in DOMAIN lines : lines[i].valid # 0})

\* the number of never-used lines that the evictions before the k-th event of
\* a call have installed into
InstalledBefore(acc, k) ==
    Cardinality({m \in 1 .. (k - 1) :
                    acc[m].kind = "evict" /\ acc[m].oldValid = 0})

\* C11: in every reachable state each invalid line has a larger time than
\* every valid line, and an eviction overwrites a valid line only when every
\* line is valid at that moment: a miss installs into a never-used line as
\* long as there is one.
C11_InvalidLinesOldest ==
    [][/\ isInitialized(F_memory') =>
             \A i, j \in Lines :
                 (set'[i].valid = 0 /\ set'[j].valid # 0)
                 => set'[i].time > set'[j].time
       /\ \A k \in DOMAIN last'.acc :
             (last'.acc[k].kind = "evict" /\ last'.acc[k].oldValid # 0)
             => ValidCount(set) + InstalledBefore(last'.acc, k) = numLines]_vars

\* the cache has been warmed up line by line: the latest call evicted a valid
\* line of a cache of two lines or more, an earlier one having installed into
\* a never-used line while another line was valid
C11_Witness ==
    /\ numLines >= 2 /\ last.called /\ ~last.crossing
    /\ Len(last.evicted) = 1 /\ last.evicted[1].has
    /\ last.acc[1].oldValid # 0
    /\ ValidCount(set) = numLines

(* --------------------------- setLRU on its own ------------------------- *)
\* the largest number of lines setLRU is applied to
MaxTouchLines == 4

\* an initialized arena of full lines whose times are a permutation of
\* 0 .. n - 1, line i holding the tag i
TouchArenas(n) ==
    {[initialized |-> 1,
      cacheLineArray |-> AsSeq([i \in 1 .. n |->
          [ZeroLine EXCEPT !.time = t[i], !.valid = 1, !.tag = <<i, 0>>]], n)] :
        t \in {f \in [1 .. n -> 0 .. (n - 1)] :
                  \A i, j \in 1 .. n : i # j => f[i] # f[j]}}

TouchInit ==
    /\ F_size \in {sizeofCacheBase + sizeofCacheSet + n * sizeofCacheLine :
                      n \in 1 .. MaxTouchLines}
    /\ F_memory \in TouchArenas(numOfLinesOf(F_size))
    /\ last = NoCall
    /\ order = <<>>
    /\ fill = <<>>
    /\ failures = 0
    /\ F_memoryB = ZeroArena(F_size)
    /\ hist = <<>>
    /\ histB = <<>>

\* setLRU(set, line, numOfLines) as the hit branches call it; hist keeps the
\* line and the line array before the call
Touch ==
    \E line \in Lines :
        /\ F_memory' = [F_memory EXCEPT
                           !.cacheLineArray = setLRU(set, line, numLines)]
        /\ hist' = <<[line |-> line, before |-> set]>>
        /\ UNCHANGED <<F_size, last, order, fill, failures, F_memoryB, histB>>

TouchNext == Touch

TouchSpec == TouchInit /\ [][TouchNext]_vars

\* C12: after setLRU on a line its time is 0, every line whose time was
\* smaller than the line's old time has been incremented by exactly 1, every
\* line whose time was larger is unchanged, and the other lines keep their
\* relative order.
C12_Touch ==
    \A h \in Lines :
        (hist # <<>> /\ hist[1].line = h) =>
            /\ set[h].time = 0
            /\ \A i \in Lines \ {h} :
                  /\ hist[1].before[i].time < hist[1].before[h].time
                        => set[i].time = hist[1].before[i].time + 1
                  /\ hist[1].before[i].time > hist[1].before[h].time
                        => set[i].time = hist[1].before[i].time
            /\ \A i, j \in Lines \ {h} :
                  (hist[1].before[i].time < hist[1].before[j].time)
                  <=> (set[i].time < set[j].time)

\* a line in the middle has been touched: a more recent line was aged and an
\* older one left alone
C12_Witness ==
    /\ numLines >= 3 /\ hist # <<>>
    /\ hist[1].before[hist[1].line].time = 1
    /\ \E i, j \in Lines :
          /\ hist[1].before[i].time = 0 /\ set[i].time = 1
          /\ hist[1].before[j].time = 2 /\ set[j].time = 2

(* ------------- a crossing call against one-block resolutions ----------- *)
\* the line array a call starts from, init having run if it had to
SetAtEntry ==
    IF isInitialized(F_memory) THEN set
    ELSE init(F_memory, F_size).cacheLineArray

\* the base addresses of the block of address a and of the block after it
BlockBase(a) == ULSub(a, OffsetOf(a))
NextBlockBase(a) == ULAdd(a, sizeOfBlock - OffsetOf(a))

\* the block at base address b resolved through the one-block path (scan,
\* then hit or eviction and read), the read succeeding
Resolve(lines, b) ==
    cache_get_single(lines, numLines, b, 0, BlockOf(b), "ok", 1)

\* the second of two resolutions, after the first
ResolveNext(first, b2) ==
    [set   |-> Resolve(first.set, b2).set,
     reads |-> first.reads \o Resolve(first.set, b2).reads]

\* the blocks at b1 and b2 resolved one after the other
ResolveBoth(lines, b1, b2) == ResolveNext(Resolve(lines, b1), b2)

ReadAddresses(reads) == [k \in DOMAIN reads |-> reads[k].address]

\* tag, valid bit and time of every line, and the addresses read, are the same
SameOutcome(r, cacheBase, reads) ==
    /\ LineStates([cacheLineArray |-> r.set]) = LineStates(cacheBase)
    /\ ReadAddresses(r.reads) = ReadAddresses(reads)

\* the crossing calls C13 is about: two lines or more, every read succeeding
CrossAllOk(c) == numLines >= 2 /\ c.called /\ c.crossing /\ AllOk(c)

\* the block of a is not resident on entry and the next block is
MissThenHit(a) ==
    /\ hitLine(SetAtEntry, BlockOf(BlockBase(a)), numLines) = 0
    /\ hitLine(SetAtEntry, BlockOf(NextBlockBase(a)), numLines) # 0

\* C13 (as claimed): with two lines or more and every read succeeding, a
\* crossing cache_get leaves the lines (tag, valid, time) and makes the reads
\* that resolving its block and then the next block through the one-block
\* path would.
C13_CrossIsSequential ==
    [][CrossAllOk(last') =>
          SameOutcome(ResolveBoth(SetAtEntry, BlockBase(last'.address),
                                  NextBlockBase(last'.address)),
                      F_memory', last'.reads)]_vars

\* C13 (amended): as above, the block of the request resolved first, except
\* when that block is not resident and the next block is: then the next
\* block is resolved (touched) first and the block of the request after it.
C13_CrossIsHitsFirst ==
    [][CrossAllOk(last') =>
          IF MissThenHit(last'.address)
          THEN SameOutcome(ResolveBoth(SetAtEntry,
                                       NextBlockBase(last'.address),
                                       BlockBase(last'.address)),
                           F_memory', last'.reads)
          ELSE SameOutcome(ResolveBoth(SetAtEntry,
                                       BlockBase(last'.address),
                                       NextBlockBase(last'.address)),
                           F_memory', last'.reads)]_vars

\* a crossing call has missed its block, hit the next one and read once
C13_Witness ==
    /\ CrossAllOk(last)
    /\ Len(last.acc) = 2 /\ Len(last.reads) = 1
    /\ last.acc[1].kind = "hit" /\ last.acc[1].half = 2
    /\ last.acc[2].kind = "evict" /\ last.acc[2].half = 1

(* ------------------- the two halves of a crossing call ----------------- *)
\* the events and the reads of a call that belong to one of its two blocks
EventsOf(c, half) == SelectSeq(c.acc, LAMBDA ev : ev.half = half)
ReadsOf(c, half) == SelectSeq(c.reads, LAMBDA rd : rd.half = half)

\* the call found its block (half 1) or the next block (half 2) not resident
MissedHalf(c, half) ==
    \E k \in DOMAIN c.acc : c.acc[k].half = half /\ c.acc[k].kind = "evict"

\* the call resolved the next block: it touched its line, or it evicted a
\* line for it and called the reader for it
ResolvedNext(c) ==
    /\ Len(EventsOf(c, 2)) = 1
    /\ EventsOf(c, 2)[1].kind = "evict" =>
          /\ Len(ReadsOf(c, 2)) = 1
          /\ ReadsOf(c, 2)[1].address = NextBlockBase(c.address)
          /\ ReadsOf(c, 2)[1].line = EventsOf(c, 2)[1].line

\* C14 (as claimed): every crossing call that finds its block not resident
\* still resolves the next block, touching its line or evicting and reading.
C14_NoShortCircuit ==
    (last.called /\ last.crossing /\ MissedHalf(last, 1)) => ResolvedNext(last)

\* C14 (amended): every crossing call that finds its block not resident and
\* whose read of that block succeeds still resolves the next block; when that
\* read fails the call returns 0 at once: a resident next block has been
\* touched by then, a block that is not resident is neither evicted for nor
\* read.
C14_NoShortCircuitUnlessReadFails ==
    (last.called /\ last.crossing /\ MissedHalf(last, 1)) =>
        IF ReadsOf(last, 1)[1].ok
        THEN ResolvedNext(last)
        ELSE /\ last.rc = 0 /\ ~last.wrote
             /\ ReadsOf(last, 2) = <<>>
             /\ \A k \in DOMAIN last.acc :
                   last.acc[k].half = 2 => last.acc[k].kind = "hit"

\* a crossing call on two lines or more that missed both blocks and read both
C14_Witness ==
    /\ last.called /\ last.crossing /\ numLines >= 2
    /\ MissedHalf(last, 1) /\ MissedHalf(last, 2)
    /\ Len(last.reads) = 2 /\ last.reads[1].ok
    /\ ResolvedNext(last)

(* ------------------------ the use of the reader ------------------------ *)
\* the blocks a call needs: its own, and the next one if the word crosses
Halves(c) == IF c.crossing THEN {1, 2} ELSE {1}
BaseOfHalf(a, half) == IF half = 1 THEN BlockBase(a) ELSE NextBlockBase(a)

\* the scan of a call for address a finds the block of that half: setLRU
\* changes neither tags nor valid bits, so the second scan of a crossing call
\* sees what the first one saw
ResidentAtEntry(a, half) ==
    hitLine(SetAtEntry, BlockOf(BaseOfHalf(a, half)), numLines) # 0

\* rd is a read of the 64 bytes of the block of that half into a line that
\* is valid and carries the block's tag (as the 32-bit field holds it) already
ReadFor(rd, a, half) ==
    /\ rd.address = BaseOfHalf(a, half)
    /\ rd.address[1] % sizeOfBlock = 0
    /\ rd.size = 64
    /\ rd.lineValid = 1
    /\ rd.lineTag = ToUInt(BlockOf(BaseOfHalf(a, half)))

\* C15 (as claimed): a call reads nothing for a block its scan finds, and
\* reads exactly once, at the block's base address, 64 bytes, into a line
\* whose tag is overwritten already, for each block its scan does not find;
\* at most one read without crossing, at most two with.
C15_ReaderUsage ==
    [][last'.called =>
          /\ Len(last'.reads) <= (IF last'.crossing THEN 2 ELSE 1)
          /\ \A half \in Halves(last') :
                IF ResidentAtEntry(last'.address, half)
                THEN ReadsOf(last', half) = <<>>
                ELSE /\ Len(ReadsOf(last', half)) = 1
                     /\ ReadFor(ReadsOf(last', half)[1], last'.address, half)]_vars

\* C15 (amended): as claimed, except that a crossing call whose read of its
\* own block fails makes no read for the next block.
C15_ReaderUsageUnlessReadFails ==
    [][last'.called =>
          /\ Len(last'.reads) <= (IF last'.crossing THEN 2 ELSE 1)
          /\ \A half \in Halves(last') :
                IF ResidentAtEntry(last'.address, half)
                THEN ReadsOf(last', half) = <<>>
                ELSE IF half = 2 /\ ReadsOf(last', 1) # <<>>
                        /\ ~ReadsOf(last', 1)[1].ok
                THEN ReadsOf(last', half) = <<>>
                ELSE /\ Len(ReadsOf(last', half)) = 1
                     /\ ReadFor(ReadsOf(last', half)[1], last'.address, half)]_vars

\* a warm cache: a crossing call has hit one block and read the other, at an
\* address with a non-zero offset
C15_Witness ==
    /\ last.called /\ last.crossing /\ ~last.cold
    /\ Len(Hits(last)) = 1 /\ Len(last.reads) = 1
    /\ last.reads[1].address # last.address
    /\ last.reads[1].address[1] % sizeOfBlock = 0

(* --------------------------- lazy initialization ----------------------- *)
\* C16: on an arena whose initialized flag is 0 the first cache_get runs init
\* before it looks anything up, so that the lookup misses on lines with time
\* i (counted from 0), valid 0 and tag 0 and takes the last one; the flag is
\* 1 from then on, and no later cache_get runs init or makes a valid line
\* invalid again.
C16_LazyInitOnce ==
    [][/\ (last'.called /\ ~isInitialized(F_memory)) =>
             /\ last'.ranInit /\ isInitialized(F_memory')
             /\ last'.acc # <<>>
             /\ last'.acc[1].kind = "evict"
             /\ last'.acc[1].line = numLines
             /\ last'.acc[1].oldTime = numLines - 1
             /\ last'.acc[1].oldValid = 0
             /\ last'.acc[1].oldTag = <<0, 0>>
             /\ ~last'.crossing =>
                   \A i \in Lines \ {numLines} :
                       /\ set'[i].time = (i - 1) + 1
                       /\ set'[i].valid = 0
                       /\ set'[i].tag = <<0, 0>>
       /\ (last'.called /\ isInitialized(F_memory)) =>
             /\ ~last'.ranInit /\ isInitialized(F_memory')
             /\ \A i \in Lines : set[i].valid # 0 => set'[i].valid # 0
             /\ ValidCount(set') >= ValidCount(set)]_vars

\* a later call on an arena of two lines or more whose lines are all in use
C16_Witness ==
    /\ numLines >= 2 /\ last.called /\ ~last.ranInit /\ ~last.cold
    /\ isInitialized(F_memory) /\ ValidCount(set) = numLines

(* ------------------------------ fill order ----------------------------- *)
\* C17: starting from a freshly initialized cache, the k-th miss
\* (k = 1 .. numLines) installs into the line at array index numLines - k:
\* an eviction made while v < numLines lines are in use takes the never-used
\* line at index numLines - (v + 1), the last line first and index 0 last.
\* Lines are counted from 1 here, so that index j is line j + 1.
C17_FillOrder ==
    [][\A m \in DOMAIN last'.acc :
          (/\ last'.acc[m].kind = "evict"
           /\ ValidCount(set) + InstalledBefore(last'.acc, m) < numLines)
          => /\ last'.acc[m].oldValid = 0
             /\ last'.acc[m].line - 1 =
                   numLines - (ValidCount(set)
                               + InstalledBefore(last'.acc, m) + 1)]_vars

\* two lines or more filled by misses alone, no line accessed twice: the
\* latest miss has installed into the line at index 0
C17_Witness ==
    /\ numLines >= 2 /\ last.called /\ ~last.crossing
    /\ Len(last.acc) = 1 /\ last.acc[1].kind = "evict"
    /\ last.acc[1].oldValid = 0 /\ last.acc[1].line = 1
    /\ ValidCount(set) = numLines
    /\ Len(order) = numLines
    /\ \A i \in Lines : set[i].time = i - 1

(* ------------------------------- hits ---------------------------------- *)
\* C18: whenever a call treats a block it needs as a hit on a line, the
\* latest fill of that line was for that very block, also for blocks whose
\* tag does not fit the 32-bit tag field.
C18_HitSoundness ==
    [][\A m \in DOMAIN last'.acc :
          last'.acc[m].kind = "hit" =>
             /\ fill[last'.acc[m].line].has
             /\ fill[last'.acc[m].line].tag =
                   BlockOf(BaseOfHalf(last'.address, last'.acc[m].half))]_vars

(* --------------------------- repeated access --------------------------- *)
\* C19: with two lines or more and a reader that never fails, a cache_get
\* for the address of the call just before it makes no backing read and
\* leaves tag, valid bit, block bytes and time of every line as they were.
C19_RepeatIdempotent ==
    [][(/\ numLines >= 2
        /\ last.called /\ last'.called
        /\ last'.address = last.address
        /\ failures' = 0)
       => (last'.reads = <<>> /\ F_memory' = F_memory)]_vars

(* ----------------------- after a crossing call ------------------------- *)
\* line i is valid, carries the tag of block b and was last filled with it
Holds(i, b) ==
    /\ set[i].valid # 0
    /\ ToULong(set[i].tag) = BlockOf(b)
    /\ fill[i].has /\ fill[i].tag = BlockOf(b)

\* C20: after a crossing cache_get on two lines or more whose reads all
\* succeeded, its block and the next block are resident in two distinct
\* valid lines, and these two lines have the times 0 and 1, whichever of the
\* two blocks hit or missed.
C20_BothResident ==
    (numLines >= 2 /\ last.called /\ last.crossing /\ AllOk(last)) =>
        \E i, j \in Lines :
            /\ i # j
            /\ Holds(i, BlockBase(last.address))
            /\ Holds(j, NextBlockBase(last.address))
            /\ {set[i].time, set[j].time} = {0, 1}

(* --------------------------- frame of a lookup ------------------------- *)
\* tag, valid bit and block bytes of line i are what they were before the call
Untouched(i) ==
    /\ set'[i].tag = set[i].tag
    /\ set'[i].valid = set[i].valid
    /\ set'[i].cacheBlock = set[i].cacheBlock

\* C21: a one-block call that hits leaves tag, valid bit and block bytes of
\* every line as they were; a one-block call that misses writes tag, valid
\* bit and block bytes of one line, the victim, and leaves tag, valid bit and
\* block bytes of every other line as they were.
C21_Frame ==
    [][(last'.called /\ ~last'.crossing) =>
          IF ResidentAtEntry(last'.address, 1)
          THEN /\ \A i \in Lines : Untouched(i)
               /\ last'.reads = <<>>
          ELSE /\ Len(last'.acc) = 1 /\ last'.acc[1].kind = "evict"
               /\ Len(last'.reads) = 1
               /\ last'.reads[1].line = last'.acc[1].line
               /\ \A i \in Lines \ {last'.acc[1].line} : Untouched(i)
               /\ set'[last'.acc[1].line].valid = 1
               /\ set'[last'.acc[1].line].tag = ToUInt(BlockOf(last'.address))
               /\ last'.reads[1].ok =>
                     set'[last'.acc[1].line].cacheBlock =
                        MemBytes(BlockBase(last'.address), sizeOfBlock)]_vars

\* a one-block miss on full lines: the victim held another block, and a line
\* holding a third block is still there
C21_Witness ==
    /\ numLines >= 2 /\ last.called /\ ~last.crossing
    /\ Len(last.evicted) = 1 /\ last.evicted[1].has /\ last.evicted[1].ok
    /\ last.evicted[1].tag # BlockOf(last.address)
    /\ last.reads # <<>> /\ AllOk(last)
    /\ \E i \in Lines \ {last.acc[1].line} :
          /\ set[i].valid = 1 /\ fill[i].has /\ fill[i].ok
          /\ fill[i].tag \notin {BlockOf(last.address), last.evicted[1].tag}

====
